---- MODULE Spec2Model ----
(***************************************************************************)
(* Normalisation and aggregation pipeline of the activity dashboard:       *)
(* the per-source summary loaders (ui/src/services/*Data.ts), the year     *)
(* grouping and the monthly genre aggregation                              *)
(* (ui/src/services/traktGenreAggregation.ts).                             *)
(*                                                                         *)
(* JavaScript strings are sequences of one-character strings, so that the  *)
(* day pattern, Number() and String() are computed character by character. *)
(* JavaScript numbers are records: a finite integer, NaN or +/-Infinity.   *)
(***************************************************************************)
EXTENDS Integers, Sequences, FiniteSets, TLC

VARIABLES
    source,     \* which loader / function was called ("none" before the call)
    response,   \* what fetch() answered: [ok, status, json]
    promise,    \* state of the loader's promise: "idle" | "fulfilled" | "rejected"
    entries,    \* the Entry sequence returned by the loader (or given to the aggregation)
    error,      \* the Error the promise was rejected with: [name, message, status]
    years,      \* result of groupYears(entries)
    limitArg,   \* the limit passed to aggregateSubgenresByMonth
    monthly,    \* result of aggregateGenresByMonth / aggregateSubgenresByMonth
    \* the paginated acquisition loop
    feed,       \* what the feed answered so far, one outcome per request
    pc,         \* where the loop is: "idle" | "start" | "fetching" | "paused" | "done" | "failed"
    requests,   \* the pageId of every request issued, in order
    inFlight,   \* number of requests issued and not yet answered
    nextPageId, \* the loop's cursor
    counts,     \* the Map day key -> count, in insertion order
    published,  \* window.__gptk_freq__
    \* the Home page
    selectedId, \* the selected data source
    loads,      \* every call of loadSelected so far, in order: its cfg and whether cfg.load() settled
    isLoading,  \* the isLoading ref
    shownError  \* the error ref: a message, or null

acqVars == <<feed, pc, requests, inFlight, nextPageId, counts, published>>
homeVars == <<selectedId, loads, isLoading, shownError>>

vars == <<source, response, promise, entries, error, years, limitArg, monthly,
          acqVars, homeVars>>

----------------------------------------------------------------------------
(* Bounds of the model *)

\* longest array / mapping document served to a loader
MaxRecords == 2

\* longest Entry sequence handed to groupYears and to the aggregation
MaxEntries == 2

----------------------------------------------------------------------------
(* JavaScript numbers *)

Fin(n) == [k |-> "fin", n |-> n]
NaN == [k |-> "nan", n |-> 0]
PosInfinity == [k |-> "inf", n |-> 1]
NegInfinity == [k |-> "inf", n |-> -1]

\* Number.isFinite(x) for a value that is a number
NumberIsFinite(x) == x.k = "fin"

\* a + b on numbers
JsAdd(a, b) ==
    IF a.k = "nan" \/ b.k = "nan" THEN NaN
    ELSE IF a.k = "fin" /\ b.k = "fin" THEN Fin(a.n + b.n)
    ELSE IF a.k = "inf" /\ b.k = "inf" THEN (IF a.n = b.n THEN a ELSE NaN)
    ELSE IF a.k = "inf" THEN a ELSE b

\* Math.round(x / 60): the nearest integer, a half rounded towards +Infinity
RoundDiv60(x) ==
    IF x.k = "fin" THEN Fin((x.n + 30) \div 60) ELSE x

----------------------------------------------------------------------------
(* JavaScript strings *)

DigitChars == <<"0", "1", "2", "3", "4", "5", "6", "7", "8", "9">>
Digits == {DigitChars[i] : i \in 1..10}
DigitVal(c) == (CHOOSE i \in 1..10 : DigitChars[i] = c) - 1

RECURSIVE IntToChars(_)
\* the decimal digits of an integer, as String(n) prints them
IntToChars(n) ==
    IF n < 0 THEN <<"-">> \o IntToChars(-n)
    ELSE IF n < 10 THEN <<DigitChars[n + 1]>>
    ELSE IntToChars(n \div 10) \o <<DigitChars[(n % 10) + 1]>>

RECURSIVE CharsToNat(_)
\* the value of a non-empty sequence of decimal digits
CharsToNat(cs) ==
    IF Len(cs) = 1 THEN DigitVal(cs[1])
    ELSE 10 * CharsToNat(SubSeq(cs, 1, Len(cs) - 1)) + DigitVal(cs[Len(cs)])

AllDigits(cs) == Len(cs) > 0 /\ \A i \in 1..Len(cs) : cs[i] \in Digits

S_undefined == <<"u", "n", "d", "e", "f", "i", "n", "e", "d">>
S_null == <<"n", "u", "l", "l">>
S_true == <<"t", "r", "u", "e">>
S_false == <<"f", "a", "l", "s", "e">>
S_NaN == <<"N", "a", "N">>
S_Infinity == <<"I", "n", "f", "i", "n", "i", "t", "y">>
S_object == <<"[", "o", "b", "j", "e", "c", "t", " ", "O", "b", "j", "e", "c", "t", "]">>

RECURSIVE Trim(_)
\* s.trim() for the blank character of the model's alphabet
Trim(cs) ==
    IF Len(cs) = 0 THEN cs
    ELSE IF cs[1] = " " THEN Trim(Tail(cs))
    ELSE IF cs[Len(cs)] = " " THEN Trim(SubSeq(cs, 1, Len(cs) - 1))
    ELSE cs

\* Number(s) for a string s: blanks trimmed, "" is 0, an optionally signed
\* decimal integer or Infinity is its value, anything else NaN.
\* (The model's strings hold no fraction, exponent or radix prefix.)
StringToNumber(cs) ==
    LET t == Trim(cs)
        signed == Len(t) > 0 /\ t[1] \in {"+", "-"}
        sign == IF signed /\ t[1] = "-" THEN -1 ELSE 1
        body == IF signed THEN Tail(t) ELSE t
    IN  IF Len(t) = 0 THEN Fin(0)
        ELSE IF AllDigits(body) THEN Fin(sign * CharsToNat(body))
        ELSE IF body = S_Infinity THEN [k |-> "inf", n |-> sign]
        ELSE NaN

\* /^\d{4}-\d{2}-\d{2}$/.test(s)
TestDayPattern(cs) ==
    /\ Len(cs) = 10
    /\ \A i \in {1, 2, 3, 4, 6, 7, 9, 10} : cs[i] \in Digits
    /\ cs[5] = "-"
    /\ cs[8] = "-"

----------------------------------------------------------------------------
(* JSON values, as JSON.parse returns them *)

JUndefined == [t |-> "undefined"]
JNull == [t |-> "null"]
JBool(b) == [t |-> "boolean", b |-> b]
JNum(x) == [t |-> "number", v |-> x]
JNumber(n) == JNum(Fin(n))
JString(cs) == [t |-> "string", s |-> cs]
\* an array: its elements in order
JArray(a) == [t |-> "array", a |-> a]
\* an object: its own properties <<key, value>> in insertion order, keys distinct
JObject(props) == [t |-> "object", props |-> props]

Prop(key, value) == [key |-> key, value |-> value]

IsNullish(x) == x.t \in {"undefined", "null"}

\* Boolean(x): what `!d` and `json && ...` test
Truthy(x) ==
    CASE x.t \in {"undefined", "null"} -> FALSE
      [] x.t = "boolean" -> x.b
      [] x.t = "number" -> x.v.k = "inf" \/ (x.v.k = "fin" /\ x.v.n # 0)
      [] x.t = "string" -> Len(x.s) > 0
      [] OTHER -> TRUE

ArrayIsArray(x) == x.t = "array"

\* typeof x === 'object'
TypeofIsObject(x) == x.t \in {"object", "array", "null"}

\* d.key throws a TypeError when d is null or undefined
GetThrows(d) == IsNullish(d)

\* d.key for d that is neither null nor undefined: the own property of an
\* object, undefined on an object without it and on every primitive and array
\* (the keys read by the loaders are no property of a primitive or an array)
Get(d, key) ==
    IF d.t = "object" /\ \E i \in 1..Len(d.props) : d.props[i].key = key
    THEN d.props[CHOOSE i \in 1..Len(d.props) : d.props[i].key = key].value
    ELSE JUndefined

\* x ?? dflt
Coalesce(x, dflt) == IF IsNullish(x) THEN dflt ELSE x

RECURSIVE String(_)
RECURSIVE JoinElements(_)
\* elements of an array joined with ",", null and undefined printing as ""
JoinElements(a) ==
    IF Len(a) = 0 THEN <<>>
    ELSE LET one == IF IsNullish(a[1]) THEN <<>> ELSE String(a[1])
         IN  IF Len(a) = 1 THEN one ELSE one \o <<",">> \o JoinElements(Tail(a))

\* String(x)
String(x) ==
    CASE x.t = "undefined" -> S_undefined
      [] x.t = "null" -> S_null
      [] x.t = "boolean" -> (IF x.b THEN S_true ELSE S_false)
      [] x.t = "number" ->
            (IF x.v.k = "fin" THEN IntToChars(x.v.n)
             ELSE IF x.v.k = "nan" THEN S_NaN
             ELSE IF x.v.n < 0 THEN <<"-">> \o S_Infinity ELSE S_Infinity)
      [] x.t = "string" -> x.s
      [] x.t = "array" -> JoinElements(x.a)
      [] OTHER -> S_object

\* Number(x)
Number(x) ==
    CASE x.t = "undefined" -> NaN
      [] x.t = "null" -> Fin(0)
      [] x.t = "boolean" -> (IF x.b THEN Fin(1) ELSE Fin(0))
      [] x.t = "number" -> x.v
      [] x.t = "string" -> StringToNumber(x.s)
      [] x.t = "array" -> StringToNumber(JoinElements(x.a))
      [] OTHER -> NaN

\* Number.isFinite(x) for any value: false for everything that is not a number
IsFiniteValue(x) == x.t = "number" /\ NumberIsFinite(x.v)

\* a canonical array index: "0", or digits without a leading zero
IsArrayIndex(cs) == AllDigits(cs) /\ (Len(cs) = 1 \/ cs[1] # "0")

\* Object.entries(o): the integer-like keys first, in ascending numeric order,
\* then the other keys in insertion order
ObjectEntries(o) ==
    LET IsIndex(p) == IsArrayIndex(p.key)
        NotIndex(p) == ~IsArrayIndex(p.key)
        idx == SelectSeq(o.props, IsIndex)
        rest == SelectSeq(o.props, NotIndex)
        \* position of idx[i] among the index keys sorted by value
        rank(i) == 1 + Cardinality({j \in 1..Len(idx) :
                        CharsToNat(idx[j].key) < CharsToNat(idx[i].key)})
        sorted == [r \in 1..Len(idx) |->
                        idx[CHOOSE i \in 1..Len(idx) : rank(i) = r]]
    IN  sorted \o rest


----------------------------------------------------------------------------
(* Property names read by the loaders and the aggregation *)

K_date == <<"d", "a", "t", "e">>
K_count == <<"c", "o", "u", "n", "t">>
K_msgs_sent == <<"m", "s", "g", "s", "_", "s", "e", "n", "t">>
K_energy_burned_kcal == <<"e", "n", "e", "r", "g", "y", "_", "b", "u", "r", "n", "e", "d", "_", "k", "c", "a", "l">>
K_steps == <<"s", "t", "e", "p", "s">>
K_walk_distance_meters == <<"w", "a", "l", "k", "_", "d", "i", "s", "t", "a", "n", "c", "e", "_", "m", "e", "t", "e", "r", "s">>
K_total_runtime == <<"t", "o", "t", "a", "l", "_", "r", "u", "n", "t", "i", "m", "e">>
K_genres == <<"g", "e", "n", "r", "e", "s">>
K_subgenres == <<"s", "u", "b", "g", "e", "n", "r", "e", "s">>
K_incoming_count == <<"i", "n", "c", "o", "m", "i", "n", "g", "_", "c", "o", "u", "n", "t">>
K_outgoing_count == <<"o", "u", "t", "g", "o", "i", "n", "g", "_", "c", "o", "u", "n", "t">>
K_incoming_seconds == <<"i", "n", "c", "o", "m", "i", "n", "g", "_", "s", "e", "c", "o", "n", "d", "s">>
K_outgoing_seconds == <<"o", "u", "t", "g", "o", "i", "n", "g", "_", "s", "e", "c", "o", "n", "d", "s">>
K_total_count == <<"t", "o", "t", "a", "l", "_", "c", "o", "u", "n", "t">>
K_total_seconds == <<"t", "o", "t", "a", "l", "_", "s", "e", "c", "o", "n", "d", "s">>
K_total_minutes == <<"t", "o", "t", "a", "l", "_", "m", "i", "n", "u", "t", "e", "s">>
K_name == <<"n", "a", "m", "e">>

----------------------------------------------------------------------------
(* Promises returned by the loaders *)

Fulfilled(value) == [state |-> "fulfilled", value |-> value, name |-> "", message |-> "", status |-> 0]
\* throw new Error(message) with the response status where the message carries one
Rejected(name, message, status) ==
    [state |-> "rejected", value |-> <<>>, name |-> name, message |-> message, status |-> status]

\* what json.map(d => ... d.date ...) throws on the first null element
NullProperty == Rejected("TypeError", "Cannot read properties of null", 0)

\* some element of the array makes the map callback throw
MapThrows(a) == \E i \in 1..Len(a) : GetThrows(a[i])

----------------------------------------------------------------------------
(* googlePhotosData.ts *)

PhotosEntry(d) == [date |-> String(Get(d, K_date)), count |-> Number(Get(d, K_count))]
PhotosPair(p) == [date |-> String(JString(p.key)), count |-> Number(p.value)]
PhotosKeep(e) == NumberIsFinite(e.count) /\ TestDayPattern(e.date)

\* the array branch: json.map(...).filter(...)
PhotosFromArray(a) == SelectSeq([i \in 1..Len(a) |-> PhotosEntry(a[i])], PhotosKeep)
\* PhotosFromObject with the filter left out
PhotosFromObject_Unfiltered(o) ==
    LET pairs == ObjectEntries(o)
    IN  [i \in 1..Len(pairs) |-> PhotosPair(pairs[i])]

\* the date-keyed branch: Object.entries(json).map(...).filter(...)
PhotosFromObject(o) ==
    LET pairs == ObjectEntries(o)
    IN  SelectSeq([i \in 1..Len(pairs) |-> PhotosPair(pairs[i])], PhotosKeep)

loadPhotosSummary(r) ==
    IF ~r.ok THEN Rejected("Error", "Failed to load Google Photos summary", r.status)
    ELSE IF ArrayIsArray(r.json) THEN
        (IF MapThrows(r.json.a) THEN NullProperty
         ELSE Fulfilled(PhotosFromArray(r.json.a)))
    ELSE IF Truthy(r.json) /\ TypeofIsObject(r.json) THEN
        Fulfilled(PhotosFromObject(r.json))
    ELSE Rejected("Error",
            "Invalid Google Photos summary shape: expected array or date-keyed object", 0)

----------------------------------------------------------------------------
(* ytmusicData.ts *)

SearchEntry(d) == [date |-> String(Get(d, K_date)), count |-> Number(Get(d, K_count))]
SearchKeep(e) == NumberIsFinite(e.count) /\ TestDayPattern(e.date)

loadSearchSummary(r) ==
    IF ~r.ok THEN Rejected("Error", "Failed to load YTMusic summary", r.status)
    ELSE IF ~ArrayIsArray(r.json) THEN
        Rejected("Error", "Invalid YTMusic summary shape: expected an array", 0)
    ELSE IF MapThrows(r.json.a) THEN NullProperty
    ELSE Fulfilled(SelectSeq([i \in 1..Len(r.json.a) |-> SearchEntry(r.json.a[i])], SearchKeep))

----------------------------------------------------------------------------
(* whatsappData.ts *)

WhatsAppEntry(d) ==
    [date |-> String(Get(d, K_date)),
     msgs_sent |-> Number(Coalesce(Get(d, K_msgs_sent), JNumber(0)))]
WhatsAppKeep(e) == NumberIsFinite(e.msgs_sent) /\ TestDayPattern(e.date)

loadWhatsAppSummary(r) ==
    IF ~r.ok THEN Rejected("Error", "Failed to load WhatsApp summary", r.status)
    ELSE IF ~ArrayIsArray(r.json) THEN
        Rejected("Error", "Invalid WhatsApp summary shape: expected an array", 0)
    ELSE IF MapThrows(r.json.a) THEN NullProperty
    ELSE Fulfilled(SelectSeq([i \in 1..Len(r.json.a) |-> WhatsAppEntry(r.json.a[i])], WhatsAppKeep))

----------------------------------------------------------------------------
(* healthData.ts *)

HealthEntry(d) ==
    [date |-> String(Get(d, K_date)),
     energy_burned_kcal |-> Number(Get(d, K_energy_burned_kcal)),
     steps |-> Number(Get(d, K_steps)),
     walk_distance_meters |-> Number(Get(d, K_walk_distance_meters))]
HealthKeep(e) ==
    /\ NumberIsFinite(e.energy_burned_kcal)
    /\ NumberIsFinite(e.steps)
    /\ NumberIsFinite(e.walk_distance_meters)
    /\ TestDayPattern(e.date)

loadHealthSummary(r) ==
    IF ~r.ok THEN Rejected("Error", "Failed to load Health summary", r.status)
    ELSE IF ~ArrayIsArray(r.json) THEN
        Rejected("Error", "Invalid Health summary shape: expected an array", 0)
    ELSE IF MapThrows(r.json.a) THEN NullProperty
    ELSE Fulfilled(SelectSeq([i \in 1..Len(r.json.a) |-> HealthEntry(r.json.a[i])], HealthKeep))

----------------------------------------------------------------------------
(* traktRuntimeData.ts (second half of healthData.ts) *)

\* Array.isArray(x) ? x : []
ArrayOrEmpty(x) == IF ArrayIsArray(x) THEN x.a ELSE <<>>

RuntimeEntry(d) ==
    [date |-> String(Get(d, K_date)),
     total_runtime |-> Number(Get(d, K_total_runtime)),
     genres |-> ArrayOrEmpty(Get(d, K_genres)),
     subgenres |-> ArrayOrEmpty(Get(d, K_subgenres))]
RuntimeKeep(e) == NumberIsFinite(e.total_runtime) /\ TestDayPattern(e.date)

loadRuntimeSummary(r) ==
    IF ~r.ok THEN Rejected("Error", "Failed to load summary data", r.status)
    ELSE IF ~ArrayIsArray(r.json) THEN
        Rejected("Error", "Invalid summary data shape: expected an array", 0)
    ELSE IF MapThrows(r.json.a) THEN NullProperty
    ELSE Fulfilled(SelectSeq([i \in 1..Len(r.json.a) |-> RuntimeEntry(r.json.a[i])], RuntimeKeep))

----------------------------------------------------------------------------
(* callsData.ts *)

\* x if it is finite, else 0
FiniteOrZero(x) == IF NumberIsFinite(x) THEN x ELSE Fin(0)

\* normalizeCallEntry(d) for a truthy d; null is returned as JNull for a falsy d
normalizeCallEntry(d) ==
    IF ~Truthy(d) THEN JNull
    ELSE
        LET raw == [date |-> String(Get(d, K_date)),
                    incoming_count |-> Number(Coalesce(Get(d, K_incoming_count), JNumber(0))),
                    outgoing_count |-> Number(Coalesce(Get(d, K_outgoing_count), JNumber(0))),
                    incoming_seconds |-> Number(Coalesce(Get(d, K_incoming_seconds), JNumber(0))),
                    outgoing_seconds |-> Number(Coalesce(Get(d, K_outgoing_seconds), JNumber(0)))]
            total_count == JsAdd(FiniteOrZero(raw.incoming_count), FiniteOrZero(raw.outgoing_count))
            total_seconds == JsAdd(FiniteOrZero(raw.incoming_seconds), FiniteOrZero(raw.outgoing_seconds))
            total_minutes == RoundDiv60(total_seconds)
        IN  [date |-> raw.date,
             incoming_count |-> raw.incoming_count,
             outgoing_count |-> raw.outgoing_count,
             incoming_seconds |-> raw.incoming_seconds,
             outgoing_seconds |-> raw.outgoing_seconds,
             total_count |-> total_count,
             total_seconds |-> total_seconds,
             total_minutes |-> total_minutes]

\* the filter of loadCallsSummary
CallsKeep(e) ==
    /\ e # JNull
    /\ NumberIsFinite(e.total_seconds)
    /\ NumberIsFinite(e.total_count)
    /\ TestDayPattern(e.date)

\* loadCallsSummary testing the shape before response.ok
loadCallsSummary_ShapeFirst(r) ==
    IF ~ArrayIsArray(r.json) THEN
        Rejected("Error", "Invalid Calls summary shape: expected an array", 0)
    ELSE IF ~r.ok THEN Rejected("Error", "Failed to load Calls summary", r.status)
    ELSE Fulfilled(SelectSeq([i \in 1..Len(r.json.a) |-> normalizeCallEntry(r.json.a[i])], CallsKeep))

loadCallsSummary(r) ==
    IF ~r.ok THEN Rejected("Error", "Failed to load Calls summary", r.status)
    ELSE IF ~ArrayIsArray(r.json) THEN
        Rejected("Error", "Invalid Calls summary shape: expected an array", 0)
    ELSE Fulfilled(SelectSeq([i \in 1..Len(r.json.a) |-> normalizeCallEntry(r.json.a[i])], CallsKeep))

----------------------------------------------------------------------------
(* Dates: new Date(isoDate + 'T00:00:00Z') *)

IsLeapYear(y) == (y % 4 = 0 /\ y % 100 # 0) \/ y % 400 = 0

DaysInMonth(y, m) ==
    IF m = 2 THEN (IF IsLeapYear(y) THEN 29 ELSE 28)
    ELSE IF m \in {4, 6, 9, 11} THEN 30 ELSE 31

\* The date-time string isoDate + 'T00:00:00Z' is in the ISO format exactly
\* when isoDate is YYYY-MM-DD with a month 01..12 and a day of that month;
\* every other string of the model parses to an invalid Date (NaN).
\* (Engines differ on a day 29..31 beyond the month's length; the model's
\* documents hold none.)
IsValidISODay(cs) ==
    /\ TestDayPattern(cs)
    /\ LET y == CharsToNat(SubSeq(cs, 1, 4))
           m == CharsToNat(SubSeq(cs, 6, 7))
           d == CharsToNat(SubSeq(cs, 9, 10))
       IN  m \in 1..12 /\ d \in 1..DaysInMonth(y, m)

\* new Date(isoDate + 'T00:00:00Z').getUTCFullYear()
getYearFromISO(isoDate) ==
    IF IsValidISODay(isoDate) THEN Fin(CharsToNat(SubSeq(isoDate, 1, 4))) ELSE NaN

\* new Date(isoDate + 'T00:00:00Z').getUTCMonth() + 1
getUTCMonthPlus1(isoDate) ==
    IF IsValidISODay(isoDate) THEN Fin(CharsToNat(SubSeq(isoDate, 6, 7))) ELSE NaN

----------------------------------------------------------------------------
(* Array.prototype.sort and Set / Map insertion order *)

\* a - b
JsSub(a, b) == JsAdd(a, IF b.k = "nan" THEN b ELSE [k |-> b.k, n |-> -b.n])

\* the sign sort() reads off a comparator's result: NaN counts as 0
CmpSign(x) ==
    IF x.k = "nan" THEN 0
    ELSE IF x.n < 0 THEN -1 ELSE IF x.n > 0 THEN 1 ELSE 0

\* InsertStable placing x before the elements it compares equal to
InsertStable_BeforeEqual(idx, x, c) ==
    LET after == {p \in 1..Len(idx) : c[idx[p]][x] < 0}
        at == IF after = {} THEN 0 ELSE CHOOSE p \in after : \A q \in after : q <= p
    IN  SubSeq(idx, 1, at) \o <<x>> \o SubSeq(idx, at + 1, Len(idx))

\* One insertion of a stable sort. idx holds the positions already placed,
\* c[i][j] is the sign of comparator(s[i], s[j]); position x goes after the
\* last placed position that does not compare greater than it.
InsertStable(idx, x, c) ==
    LET after == {p \in 1..Len(idx) : c[idx[p]][x] <= 0}
        at == IF after = {} THEN 0 ELSE CHOOSE p \in after : \A q \in after : q <= p
    IN  SubSeq(idx, 1, at) \o <<x>> \o SubSeq(idx, at + 1, Len(idx))

\* array.sort(comparator): stable (ECMAScript 2019), elements inserted left
\* to right
StableSort(s, c) ==
    LET F[i \in 0..Len(s)] ==
            IF i = 0 THEN <<>> ELSE InsertStable(F[i - 1], i, c)
        order == F[Len(s)]
    IN  [r \in 1..Len(s) |-> s[order[r]]]

\* the values of s in first-occurrence order, as a Set keeps them
\* (SameValueZero: NaN is one value)
SetOrder(s) ==
    LET First(i) == \A j \in 1..(i - 1) : s[j] # s[i]
        F[i \in 0..Len(s)] ==
            IF i = 0 THEN <<>>
            ELSE IF First(i) THEN Append(F[i - 1], s[i]) ELSE F[i - 1]
    IN  F[Len(s)]

\* (a, b) => a - b
CompareNumbers(a, b) == JsSub(a, b)

\* SortYears leaving the Set's order
SortYears_Unsorted(s) == s

\* Array.from(years).sort((a, b) => a - b)
SortYears(s) ==
    StableSort(s, [i \in 1..Len(s) |-> [j \in 1..Len(s) |->
                        CmpSign(CompareNumbers(s[i], s[j]))]])

\* groupYears(entries), the same function in every *Data.ts
groupYears(es) ==
    SortYears(SetOrder([i \in 1..Len(es) |-> getYearFromISO(es[i].date)]))

----------------------------------------------------------------------------
(* traktGenreAggregation.ts *)

\* the default of aggregateSubgenresByMonth's limit parameter
DefaultLimit == 5

\* key(y, m): `${y}-${m}`
MonthKey(y, m) == String(JNum(y)) \o <<"-">> \o String(JNum(m))

RECURSIVE Split(_, _)
\* s.split(sep) for a one-character separator
Split(cs, sep) ==
    IF \A i \in 1..Len(cs) : cs[i] # sep THEN <<cs>>
    ELSE LET at == CHOOSE i \in 1..Len(cs) :
                        cs[i] = sep /\ \A j \in 1..(i - 1) : cs[j] # sep
         IN  <<SubSeq(cs, 1, at - 1)>> \o Split(SubSeq(cs, at + 1, Len(cs)), sep)

\* the i-th element of an array of strings, undefined beyond its end
\* (the destructuring const [ys, ms] = k.split('-'))
ElementOrUndefined(a, i) == IF i <= Len(a) THEN JString(a[i]) ELSE JUndefined

\* MapAdd forgetting the previous sum: genreMap.set(g.name, g.count)
MapAdd_Overwrite(genreMap, g) ==
    LET name == Get(g, K_name)
        count == Get(g, K_count)
        add == IF IsFiniteValue(count) THEN count.v ELSE Fin(0)
        has == \E i \in 1..Len(genreMap) : genreMap[i].name = name
    IN  IF has
        THEN [i \in 1..Len(genreMap) |->
                IF genreMap[i].name = name THEN [name |-> name, count |-> add]
                ELSE genreMap[i]]
        ELSE Append(genreMap, [name |-> name, count |-> add])

\* genreMap.set(g.name, (genreMap.get(g.name) ?? 0) + (Number.isFinite(g.count) ? g.count : 0)):
\* an existing name keeps its place in the Map, a new one goes last
MapAdd(genreMap, g) ==
    LET name == Get(g, K_name)
        count == Get(g, K_count)
        add == IF IsFiniteValue(count) THEN count.v ELSE Fin(0)
        has == \E i \in 1..Len(genreMap) : genreMap[i].name = name
    IN  IF has
        THEN [i \in 1..Len(genreMap) |->
                IF genreMap[i].name = name
                THEN [name |-> name, count |-> JsAdd(genreMap[i].count, add)]
                ELSE genreMap[i]]
        ELSE Append(genreMap, [name |-> name, count |-> JsAdd(Fin(0), add)])

\* the inner loop: for (const g of list) genreMap.set(...)
FoldGenres(genreMap, list) ==
    LET F[i \in 0..Len(list)] ==
            IF i = 0 THEN genreMap ELSE MapAdd(F[i - 1], list[i])
    IN  F[Len(list)]

\* one turn of the outer loop: the entry's bucket is created on first use and
\* the entry's list is folded into it
MapEntry(map, e, list) ==
    LET km == MonthKey(getYearFromISO(e.date), getUTCMonthPlus1(e.date))
        has == \E i \in 1..Len(map) : map[i].key = km
        map1 == IF has THEN map ELSE Append(map, [key |-> km, genreMap |-> <<>>])
    IN  [i \in 1..Len(map1) |->
            IF map1[i].key = km
            THEN [key |-> km, genreMap |-> FoldGenres(map1[i].genreMap, list)]
            ELSE map1[i]]

\* the outer loop over entries; lists[i] is the list read from entry i
\* (e.genres ?? [] or e.subgenres ?? [])
FoldEntries(es, lists) ==
    LET F[i \in 0..Len(es)] ==
            IF i = 0 THEN <<>> ELSE MapEntry(F[i - 1], es[i], lists[i])
    IN  F[Len(es)]

\* (a, b) => b.count - a.count
CompareCountDesc(a, b) == JsSub(b.count, a.count)

\* SortGenres leaving the Map's order
SortGenres_Unsorted(s) == s

\* .sort((a, b) => b.count - a.count) of one bucket's counters
SortGenres(s) ==
    StableSort(s, [i \in 1..Len(s) |-> [j \in 1..Len(s) |->
                        CmpSign(CompareCountDesc(s[i], s[j]))]])

\* CompareYearMonth without the month: (a, b) => a.year - b.year
CompareYearMonth_YearOnly(a, b) == JsSub(a.year, b.year)

\* (a, b) => (a.year - b.year) || (a.month - b.month)
CompareYearMonth(a, b) ==
    LET dy == JsSub(a.year, b.year)
    IN  IF dy.k = "nan" \/ (dy.k = "fin" /\ dy.n = 0) THEN JsSub(a.month, b.month) ELSE dy

\* monthly.sort((a, b) => (a.year - b.year) || (a.month - b.month))
SortMonthly(s) ==
    StableSort(s, [i \in 1..Len(s) |-> [j \in 1..Len(s) |->
                        CmpSign(CompareYearMonth(s[i], s[j]))]])

\* SliceLimit taking a limit of 0 for "no limit"
SliceLimit_ZeroUncapped(s, limit) ==
    IF limit > 0 THEN SubSeq(s, 1, IF limit < Len(s) THEN limit ELSE Len(s)) ELSE s

\* array.slice(0, Math.max(0, limit))
SliceLimit(s, limit) ==
    LET n == IF limit > 0 THEN limit ELSE 0
    IN  SubSeq(s, 1, IF n < Len(s) THEN n ELSE Len(s))

\* the bucket pushed for one Map entry: the key is split back into year and month
MonthBucket(key, genres) ==
    LET parts == Split(key, "-")
    IN  [year |-> Number(ElementOrUndefined(parts, 1)),
         month |-> Number(ElementOrUndefined(parts, 2)),
         genres |-> genres]

\* e.genres ?? [] and e.subgenres ?? [] of every entry (an Entry's lists are
\* arrays, possibly empty)
GenresOf(es) == [i \in 1..Len(es) |-> es[i].genres]
SubgenresOf(es) == [i \in 1..Len(es) |-> es[i].subgenres]

\* a null item in a list makes g.name throw
AggregateThrows(lists) ==
    \E i \in 1..Len(lists) : \E j \in 1..Len(lists[i]) : GetThrows(lists[i][j])

aggregateGenresByMonth(es) ==
    LET map == FoldEntries(es, GenresOf(es))
    IN  SortMonthly([i \in 1..Len(map) |->
            MonthBucket(map[i].key, SortGenres(map[i].genreMap))])

aggregateSubgenresByMonth(es, limit) ==
    LET map == FoldEntries(es, SubgenresOf(es))
    IN  SortMonthly([i \in 1..Len(map) |->
            MonthBucket(map[i].key, SliceLimit(SortGenres(map[i].genreMap), limit))])

----------------------------------------------------------------------------
(* The Trakt page: the years and months it renders from monthly *)

\* m.year >= 2019
AtLeast2019(y) == (y.k = "inf" /\ y.n > 0) \/ (y.k = "fin" /\ y.n >= 2019)

\* years = computed(...): the years >= 2019 that have a bucket, ascending
TraktYears(m) ==
    SortYears(SetOrder(SelectSeq([i \in 1..Len(m) |-> m[i].year], AtLeast2019)))

\* monthsForYear(year): the year's buckets by month, the months 1..12 without
\* a bucket filled with an empty one
monthsForYear(m, year) ==
    [i \in 1..12 |->
        LET hits == {x \in 1..Len(m) : m[x].year = year /\ m[x].month = Fin(i)}
        IN  IF hits = {} THEN [year |-> year, month |-> Fin(i), genres |-> <<>>]
            ELSE m[CHOOSE x \in hits : \A z \in hits : z <= x]]

\* the buckets the template renders: monthsForYear(y) for y in years
RenderedMonths(m) ==
    LET ys == TraktYears(m)
        F[i \in 0..Len(ys)] ==
            IF i = 0 THEN <<>> ELSE F[i - 1] \o monthsForYear(m, ys[i])
    IN  F[Len(ys)]

----------------------------------------------------------------------------
(* Inputs of the model *)

\* the day key `${yyyy}-${mm}-${dd}` of a calendar day, months and days padded
\* to two digits
Pad2(n) == IF n < 10 THEN <<"0">> \o IntToChars(n) ELSE IntToChars(n)
DayKey(y, m, d) == IntToChars(y) \o <<"-">> \o Pad2(m) \o <<"-">> \o Pad2(d)

\* all sequences over S of length at most n
SeqsUpTo(S, n) == UNION {[1..k -> S] : k \in 0..n}

\* an object literal: the properties whose value is not undefined
ObjectOf(props) ==
    LET Present(p) == p.value # JUndefined
    IN  JObject(SelectSeq(props, Present))

S_bad == <<"b", "a", "d">>
S_7 == <<"7">>
\* a date that is no day key: month and day not padded
S_shortDate == <<"2", "0", "2", "1", "-", "6", "-", "1">>
\* an integer-like key
S_2021 == <<"2", "0", "2", "1">>

OkResponse(json) == [ok |-> TRUE, status |-> 200, json |-> json]
\* responses with a non-success status (their body, an error page or a stale
\* document, is never read), and successful ones whose JSON is no array and
\* no object
FailedResponses ==
    {[ok |-> FALSE, status |-> s, json |-> j] : s \in {404, 500}, j \in {JNull, JArray(<<>>)}}
ScalarDocuments == {JNull, JNumber(3), JString(S_bad)}

DateValues ==
    {JString(DayKey(2021, 6, 1)), JString(DayKey(2021, 6, 2)), JString(S_shortDate), JUndefined}
CountValues == {JNumber(5), JString(S_7), JString(S_bad), JUndefined, JNull}

\* elements found in a corrupt array besides records
JunkElements == {JNull, JNumber(5)}

\* photo and search documents: [{date, count}, ...]
CountRecords ==
    {ObjectOf(<<Prop(K_date, d), Prop(K_count, c)>>) : d \in DateValues, c \in CountValues}
    \cup JunkElements

\* photo documents keyed by date: {"YYYY-MM-DD": count, ...}, keys distinct
MappingKeys == {DayKey(2021, 6, 1), DayKey(2021, 6, 2), S_shortDate, S_2021}
MappingValues == {JNumber(5), JString(S_7), JString(S_bad), JNull}
MappingDocuments ==
    {JObject(p) : p \in {q \in SeqsUpTo({Prop(k, v) : k \in MappingKeys, v \in MappingValues},
                                        MaxRecords) :
                            \A i, j \in 1..Len(q) : i # j => q[i].key # q[j].key}}

PhotosResponses ==
    {OkResponse(JArray(a)) : a \in SeqsUpTo(CountRecords, MaxRecords)}
    \cup {OkResponse(o) : o \in MappingDocuments}
    \cup {OkResponse(j) : j \in ScalarDocuments} \cup FailedResponses

SearchResponses ==
    {OkResponse(JArray(a)) : a \in SeqsUpTo(CountRecords, MaxRecords)}
    \cup {OkResponse(j) : j \in ScalarDocuments \cup {JObject(<<>>)}} \cup FailedResponses

WhatsAppRecords ==
    {ObjectOf(<<Prop(K_date, d), Prop(K_msgs_sent, c)>>) :
        d \in DateValues, c \in {JNumber(3), JString(S_bad), JUndefined, JNull}}
    \cup JunkElements

WhatsAppResponses ==
    {OkResponse(JArray(a)) : a \in SeqsUpTo(WhatsAppRecords, MaxRecords)}
    \cup {OkResponse(j) : j \in ScalarDocuments \cup {JObject(<<>>)}} \cup FailedResponses

HealthRecords ==
    {ObjectOf(<<Prop(K_date, d), Prop(K_energy_burned_kcal, e), Prop(K_steps, s),
                Prop(K_walk_distance_meters, w)>>) :
        d \in {JString(DayKey(2021, 6, 1)), JString(S_shortDate)},
        e \in {JNumber(200), JString(S_bad)},
        s \in {JNumber(1000), JUndefined},
        w \in {JNumber(700), JNull}}
    \cup {JNull}

HealthResponses ==
    {OkResponse(JArray(a)) : a \in SeqsUpTo(HealthRecords, MaxRecords)}
    \cup {OkResponse(j) : j \in ScalarDocuments \cup {JObject(<<>>)}} \cup FailedResponses

S_Drama == <<"D", "r", "a", "m", "a">>
S_Comedy == <<"C", "o", "m", "e", "d", "y">>
S_Noir == <<"N", "o", "i", "r">>
S_Sitcom == <<"S", "i", "t", "c", "o", "m">>

\* a GenreCount { name, count }
GenreCount(name, count) ==
    JObject(<<Prop(K_name, JString(name)), Prop(K_count, JNumber(count))>>)

RuntimeRecords ==
    {ObjectOf(<<Prop(K_date, d), Prop(K_total_runtime, t), Prop(K_genres, g[1]),
                Prop(K_subgenres, g[2])>>) :
        d \in {JString(DayKey(2021, 6, 1)), JString(DayKey(2021, 6, 2)), JString(S_shortDate)},
        t \in {JNumber(30), JString(S_bad)},
        g \in {<<JUndefined, JUndefined>>,
               <<JArray(<<GenreCount(S_Drama, 2)>>), JArray(<<GenreCount(S_Noir, 2)>>)>>}}
    \cup {JNull}

RuntimeResponses ==
    {OkResponse(JArray(a)) : a \in SeqsUpTo(RuntimeRecords, MaxRecords)}
    \cup {OkResponse(j) : j \in ScalarDocuments \cup {JObject(<<>>)}} \cup FailedResponses

\* call records; some carry their own total_count, total_seconds and
\* total_minutes
CallRecords ==
    {ObjectOf(<<Prop(K_date, JString(DayKey(2021, 6, 1))),
                Prop(K_incoming_count, ic), Prop(K_outgoing_count, JNumber(2)),
                Prop(K_incoming_seconds, is), Prop(K_outgoing_seconds, os),
                Prop(K_total_count, t), Prop(K_total_seconds, t), Prop(K_total_minutes, t)>>) :
        ic \in {JNumber(1), JString(S_bad), JUndefined},
        is \in {JNumber(40), JNumber(-140), JString(S_bad)},
        os \in {JNumber(50), JNull},
        t \in {JUndefined, JNumber(99)}}
    \cup {ObjectOf(<<Prop(K_date, JString(S_shortDate)), Prop(K_incoming_count, JNumber(1))>>)}
    \cup JunkElements \cup {JNumber(0)}

CallsResponses ==
    {OkResponse(JArray(a)) : a \in SeqsUpTo(CallRecords, MaxRecords)}
    \cup {OkResponse(j) : j \in ScalarDocuments \cup {JObject(<<>>)}} \cup FailedResponses

----------------------------------------------------------------------------
(* Spec: one load of a summary document *)

NoError == [name |-> "", message |-> "", status |-> 0]

\* the value of a variable never assigned: window.__gptk_freq__ before the
\* script publishes
Unset == [t |-> "undefined"]

\* the console script was not started
AcqIdle ==
    /\ feed = <<>>
    /\ pc = "idle"
    /\ requests = <<>>
    /\ inFlight = 0
    /\ nextPageId = JNull
    /\ counts = <<>>
    /\ published = Unset

\* the Home page is not mounted
HomeIdle ==
    /\ selectedId = "trakt"
    /\ loads = <<>>
    /\ isLoading = TRUE
    /\ shownError = JNull
NoResponse == [ok |-> FALSE, status |-> 0, json |-> JUndefined]

Init ==
    /\ source = "none"
    /\ response = NoResponse
    /\ promise = "idle"
    /\ entries = <<>>
    /\ error = NoError
    /\ years = <<>>
    /\ limitArg = DefaultLimit
    /\ monthly = <<>>
    /\ AcqIdle
    /\ HomeIdle

\* the Error a rejected promise carries
ErrorOf(p) == [name |-> p.name, message |-> p.message, status |-> p.status]

\* loadPhotosSummary(path): fetch answers r and the promise settles
LoadPhotosSummary ==
    /\ promise = "idle"
    /\ \E r \in PhotosResponses :
        /\ response' = r
        /\ promise' = loadPhotosSummary(r).state
        /\ entries' = loadPhotosSummary(r).value
        /\ error' = ErrorOf(loadPhotosSummary(r))
    /\ source' = "loadPhotosSummary"
    /\ UNCHANGED <<years, limitArg, monthly>>
    /\ UNCHANGED <<acqVars, homeVars>>

\* loadSearchSummary(path): fetch answers r and the promise settles
LoadSearchSummary ==
    /\ promise = "idle"
    /\ \E r \in SearchResponses :
        /\ response' = r
        /\ promise' = loadSearchSummary(r).state
        /\ entries' = loadSearchSummary(r).value
        /\ error' = ErrorOf(loadSearchSummary(r))
    /\ source' = "loadSearchSummary"
    /\ UNCHANGED <<years, limitArg, monthly>>
    /\ UNCHANGED <<acqVars, homeVars>>

\* loadWhatsAppSummary(path): fetch answers r and the promise settles
LoadWhatsAppSummary ==
    /\ promise = "idle"
    /\ \E r \in WhatsAppResponses :
        /\ response' = r
        /\ promise' = loadWhatsAppSummary(r).state
        /\ entries' = loadWhatsAppSummary(r).value
        /\ error' = ErrorOf(loadWhatsAppSummary(r))
    /\ source' = "loadWhatsAppSummary"
    /\ UNCHANGED <<years, limitArg, monthly>>
    /\ UNCHANGED <<acqVars, homeVars>>

\* loadHealthSummary(path): fetch answers r and the promise settles
LoadHealthSummary ==
    /\ promise = "idle"
    /\ \E r \in HealthResponses :
        /\ response' = r
        /\ promise' = loadHealthSummary(r).state
        /\ entries' = loadHealthSummary(r).value
        /\ error' = ErrorOf(loadHealthSummary(r))
    /\ source' = "loadHealthSummary"
    /\ UNCHANGED <<years, limitArg, monthly>>
    /\ UNCHANGED <<acqVars, homeVars>>

\* loadRuntimeSummary(path): fetch answers r and the promise settles
LoadRuntimeSummary ==
    /\ promise = "idle"
    /\ \E r \in RuntimeResponses :
        /\ response' = r
        /\ promise' = loadRuntimeSummary(r).state
        /\ entries' = loadRuntimeSummary(r).value
        /\ error' = ErrorOf(loadRuntimeSummary(r))
    /\ source' = "loadRuntimeSummary"
    /\ UNCHANGED <<years, limitArg, monthly>>
    /\ UNCHANGED <<acqVars, homeVars>>

\* loadCallsSummary(path): fetch answers r and the promise settles
LoadCallsSummary ==
    /\ promise = "idle"
    /\ \E r \in CallsResponses :
        /\ response' = r
        /\ promise' = loadCallsSummary(r).state
        /\ entries' = loadCallsSummary(r).value
        /\ error' = ErrorOf(loadCallsSummary(r))
    /\ source' = "loadCallsSummary"
    /\ UNCHANGED <<years, limitArg, monthly>>
    /\ UNCHANGED <<acqVars, homeVars>>

Next ==
    \/ LoadPhotosSummary
    \/ LoadSearchSummary
    \/ LoadWhatsAppSummary
    \/ LoadHealthSummary
    \/ LoadRuntimeSummary
    \/ LoadCallsSummary

Spec == Init /\ [][Next]_vars

----------------------------------------------------------------------------
(* SpecAgg: groupYears and the monthly aggregation applied to Entry sequences *)

\* Entries of the runtime summary: calendar days of two years, in any order
\* and repeated; per entry up to two genre items, names possibly repeated.
\* Every date is a calendar day, as the Entry type declares (ISO YYYY-MM-DD);
\* a date that matches the day pattern without being a day has NaN for its
\* year and month and is no Entry of these sequences.
AggDates ==
    {DayKey(2020, 2, 1), DayKey(2020, 2, 15), DayKey(2019, 12, 31), DayKey(2020, 11, 2)}
GenreItems == {GenreCount(S_Drama, 1), GenreCount(S_Comedy, 2)}
GenreLists == SeqsUpTo(GenreItems, 2)

\* the subgenre list that goes with a genre list: the same counts under the
\* subgenre names
SubgenreOfItem(g) ==
    GenreCount(IF Get(g, K_name).s = S_Drama THEN S_Noir ELSE S_Sitcom, Get(g, K_count).v.n)

RuntimeSummaryEntry(date, g) ==
    [date |-> date, total_runtime |-> Fin(30),
     genres |-> g, subgenres |-> [i \in 1..Len(g) |-> SubgenreOfItem(g[i])]]

AggEntries == {RuntimeSummaryEntry(d, g) : d \in AggDates, g \in GenreLists}

\* the two January 2020 entries of which Drama and Comedy both total 3
ScenarioEntries ==
    <<RuntimeSummaryEntry(DayKey(2020, 1, 1), <<GenreCount(S_Drama, 2)>>),
      RuntimeSummaryEntry(DayKey(2020, 1, 15),
                          <<GenreCount(S_Drama, 1), GenreCount(S_Comedy, 3)>>)>>

\* two entries a year apart: December 2019 and January 2021
GapEntries ==
    <<RuntimeSummaryEntry(DayKey(2019, 12, 31), <<GenreCount(S_Drama, 1)>>),
      RuntimeSummaryEntry(DayKey(2021, 1, 5), <<GenreCount(S_Comedy, 2)>>)>>

\* limits passed to aggregateSubgenresByMonth
Limits == {-1, 0, 1, DefaultLimit}

InitAgg ==
    /\ source = "none"
    /\ response = NoResponse
    /\ promise = "fulfilled"
    /\ entries \in SeqsUpTo(AggEntries, MaxEntries) \cup {ScenarioEntries, GapEntries}
    /\ error = NoError
    /\ years = <<>>
    /\ limitArg = DefaultLimit
    /\ monthly = <<>>
    /\ AcqIdle
    /\ HomeIdle

GroupYears ==
    /\ source = "none"
    /\ source' = "groupYears"
    /\ years' = groupYears(entries)
    /\ UNCHANGED <<response, promise, entries, error, limitArg, monthly>>
    /\ UNCHANGED <<acqVars, homeVars>>

AggregateGenresByMonth ==
    /\ source = "none"
    /\ ~AggregateThrows(GenresOf(entries))
    /\ source' = "aggregateGenresByMonth"
    /\ monthly' = aggregateGenresByMonth(entries)
    /\ UNCHANGED <<response, promise, entries, error, years, limitArg>>
    /\ UNCHANGED <<acqVars, homeVars>>

AggregateSubgenresByMonth ==
    /\ source = "none"
    /\ ~AggregateThrows(SubgenresOf(entries))
    /\ \E k \in Limits :
        /\ limitArg' = k
        /\ monthly' = aggregateSubgenresByMonth(entries, k)
    /\ source' = "aggregateSubgenresByMonth"
    /\ UNCHANGED <<response, promise, entries, error, years>>
    /\ UNCHANGED <<acqVars, homeVars>>

NextAgg == GroupYears \/ AggregateGenresByMonth \/ AggregateSubgenresByMonth

SpecAgg == InitAgg /\ [][NextAgg]_vars

----------------------------------------------------------------------------
(* SpecPipeline: an adapter's output handed to groupYears and to the monthly *)
(* aggregation, as the pages do                                            *)

\* dates of the served records: a calendar day, a month 13, a month 00 and a
\* day 00, which all match the day pattern, and a date that does not
PipelineDates ==
    {DayKey(2021, 6, 1), <<"2", "0", "2", "0", "-", "1", "3", "-", "0", "1">>,
     <<"2", "0", "2", "0", "-", "0", "0", "-", "1", "0">>,
     <<"2", "0", "2", "0", "-", "0", "5", "-", "0", "0">>, S_shortDate}

\* runtime summary documents over these dates
PipelineRuntimeResponses ==
    {OkResponse(JArray(a)) :
        a \in SeqsUpTo({ObjectOf(<<Prop(K_date, JString(d)), Prop(K_total_runtime, JNumber(30)),
                                   Prop(K_genres, g)>>) :
                            d \in PipelineDates,
                            g \in {JUndefined, JArray(<<GenreCount(S_Drama, 2)>>)}},
                       MaxRecords)}

\* photo documents over these dates, as arrays and keyed by date
PipelinePhotosResponses ==
    {OkResponse(JArray(a)) :
        a \in SeqsUpTo({ObjectOf(<<Prop(K_date, JString(d)), Prop(K_count, JNumber(5))>>) :
                            d \in PipelineDates}, MaxRecords)}
    \cup {OkResponse(JObject(<<Prop(d, JNumber(5))>>)) : d \in PipelineDates}

\* loadRuntimeSummary(path) answered with one of the runtime documents
LoadRuntimeForPages ==
    /\ promise = "idle"
    /\ \E r \in PipelineRuntimeResponses :
        /\ response' = r
        /\ promise' = loadRuntimeSummary(r).state
        /\ entries' = loadRuntimeSummary(r).value
        /\ error' = ErrorOf(loadRuntimeSummary(r))
    /\ source' = "loadRuntimeSummary"
    /\ UNCHANGED <<years, limitArg, monthly>>
    /\ UNCHANGED <<acqVars, homeVars>>

\* loadPhotosSummary(path) answered with one of the photo documents
LoadPhotosForPages ==
    /\ promise = "idle"
    /\ \E r \in PipelinePhotosResponses :
        /\ response' = r
        /\ promise' = loadPhotosSummary(r).state
        /\ entries' = loadPhotosSummary(r).value
        /\ error' = ErrorOf(loadPhotosSummary(r))
    /\ source' = "loadPhotosSummary"
    /\ UNCHANGED <<years, limitArg, monthly>>
    /\ UNCHANGED <<acqVars, homeVars>>

\* groupYears(data) of the entries an adapter returned
GroupYearsOfLoaded ==
    /\ promise = "fulfilled"
    /\ source \in {"loadRuntimeSummary", "loadPhotosSummary"}
    /\ source' = "groupYears"
    /\ years' = groupYears(entries)
    /\ UNCHANGED <<response, promise, entries, error, limitArg, monthly>>
    /\ UNCHANGED <<acqVars, homeVars>>

\* aggregateGenresByMonth(entries.value) of the entries loadRuntimeSummary returned
AggregateLoaded ==
    /\ promise = "fulfilled"
    /\ source = "loadRuntimeSummary"
    /\ ~AggregateThrows(GenresOf(entries))
    /\ source' = "aggregateGenresByMonth"
    /\ monthly' = aggregateGenresByMonth(entries)
    /\ UNCHANGED <<response, promise, entries, error, years, limitArg>>
    /\ UNCHANGED <<acqVars, homeVars>>

NextPipeline ==
    LoadRuntimeForPages \/ LoadPhotosForPages \/ GroupYearsOfLoaded \/ AggregateLoaded

SpecPipeline == Init /\ [][NextPipeline]_vars

----------------------------------------------------------------------------
(* The paginated acquisition loop (the Google Photos console script) *)

\* most pages a feed serves to one run of the script
MaxPages == 2

\* A millisecond epoch time, kept as the whole days since 1970-01-01 and the
\* milliseconds of the day so that both stay within 32 bits.
EpochMs(d, ms) == [t |-> "number", d |-> d, ms |-> ms]

\* the days from 1970-01-01 to the day d of month m (1..12) of year y
DaysFromCivil(y, m, d) ==
    LET yy == IF m <= 2 THEN y - 1 ELSE y
        era == yy \div 400
        yoe == yy - era * 400
        mp == IF m > 2 THEN m - 3 ELSE m + 9
        doy == (153 * mp + 2) \div 5 + d - 1
        doe == yoe * 365 + yoe \div 4 - yoe \div 100 + doy
    IN  era * 146097 + doe - 719468

\* getUTCFullYear(), getUTCMonth() + 1 and getUTCDate() of the day that lies
\* the given number of days after 1970-01-01
CivilFromDays(days) ==
    LET z == days + 719468
        era == z \div 146097
        doe == z - era * 146097
        yoe == (doe - doe \div 1460 + doe \div 36524 - doe \div 146096) \div 365
        doy == doe - (365 * yoe + yoe \div 4 - yoe \div 100)
        mp == (5 * doy + 2) \div 153
        m == IF mp < 10 THEN mp + 3 ELSE mp - 9
    IN  [y |-> yoe + era * 400 + (IF m <= 2 THEN 1 ELSE 0),
         m |-> m,
         d |-> doy - (153 * mp + 2) \div 5 + 1]

\* Date.UTC(year, monthIndex, day)
DateUTC(year, monthIndex, day) == EpochMs(DaysFromCivil(year, monthIndex + 1, day), 0)

\* const startMs = Date.UTC(2020, 0, 1)
startMs == DateUTC(2020, 0, 1)

\* a < b on epoch times
TimeLess(a, b) == a.d < b.d \/ (a.d = b.d /\ a.ms < b.ms)

\* t + tz for an epoch time t and an offset of less than a day
TimePlus(t, tz) ==
    EpochMs(t.d + ((t.ms + tz) \div 86400000), (t.ms + tz) % 86400000)

\* Qualifies leaving out the items taken at the cutoff itself
Qualifies_AfterCutoff(item) ==
    /\ ~IsNullish(item)
    /\ item.timestamp.t = "number"
    /\ TimeLess(startMs, item.timestamp)

\* item?.timestamp >= startMs: false for a null item and for a missing timestamp
Qualifies(item) ==
    /\ ~IsNullish(item)
    /\ item.timestamp.t = "number"
    /\ ~TimeLess(item.timestamp, startMs)

\* ItemTz with the offset never applied
ItemTz_Zero(item) == 0

\* typeof item.timezoneOffset === 'number' ? item.timezoneOffset : 0
ItemTz(item) ==
    IF item.timezoneOffset.t = "number" THEN item.timezoneOffset.v.n ELSE 0

\* the key `${yyyy}-${mm}-${dd}` of new Date(item.timestamp + tz), read with
\* the UTC getters
ItemDayKey(item) ==
    LET local == TimePlus(item.timestamp, ItemTz(item))
        c == CivilFromDays(local.d)
    IN  IntToChars(c.y) \o <<"-">> \o Pad2(c.m) \o <<"-">> \o Pad2(c.d)

\* counts.set(key, (counts.get(key) || 0) + 1)
CountsAdd(cs, key) ==
    IF \E i \in 1..Len(cs) : cs[i].key = key
    THEN [i \in 1..Len(cs) |->
            IF cs[i].key = key THEN [key |-> key, count |-> cs[i].count + 1] ELSE cs[i]]
    ELSE Append(cs, [key |-> key, count |-> 1])

\* for (const item of items) if (item?.timestamp >= startMs) { ... }
CountItems(cs, items) ==
    LET F[i \in 0..Len(items)] ==
            IF i = 0 THEN cs
            ELSE IF Qualifies(items[i]) THEN CountsAdd(F[i - 1], ItemDayKey(items[i]))
            ELSE F[i - 1]
    IN  F[Len(items)]

\* a.localeCompare(b) on day keys: "-" sorts before the digits, the digits
\* by value
LocaleCompare(a, b) ==
    LET Rank(c) == IF c = "-" THEN 0 ELSE 1 + DigitVal(c)
        n == IF Len(a) < Len(b) THEN Len(a) ELSE Len(b)
        diff == {i \in 1..n : a[i] # b[i]}
        at == CHOOSE i \in diff : \A j \in diff : i <= j
    IN  IF diff # {} THEN (IF Rank(a[at]) < Rank(b[at]) THEN -1 ELSE 1)
        ELSE IF Len(a) < Len(b) THEN -1 ELSE IF Len(a) > Len(b) THEN 1 ELSE 0

\* Array.from(counts.entries()).sort((a, b) => a[0].localeCompare(b[0]))
SortCounts(cs) ==
    StableSort(cs, [i \in 1..Len(cs) |-> [j \in 1..Len(cs) |->
                        LocaleCompare(cs[i].key, cs[j].key)]])

\* what getItemsByTakenDate resolves to: a page, or null
Page(items, next, hint) ==
    [kind |-> "page", items |-> items, nextPageId |-> next, lastItemTimestamp |-> hint]
NullPage ==
    [kind |-> "null", items |-> <<>>, nextPageId |-> JUndefined,
     lastItemTimestamp |-> JUndefined]
\* the outcome recorded for a request whose promise rejects
FetchError ==
    [kind |-> "error", items |-> <<>>, nextPageId |-> JUndefined,
     lastItemTimestamp |-> JUndefined]

\* shouldStop with lastTs <= startMs
shouldStop_AtOrBelow(page) ==
    page.lastItemTimestamp.t = "number" /\ ~TimeLess(startMs, page.lastItemTimestamp)

\* typeof lastTs === 'number' && lastTs < startMs
shouldStop(page) ==
    page.lastItemTimestamp.t = "number" /\ TimeLess(page.lastItemTimestamp, startMs)

\* items of the feed: { timestamp, timezoneOffset }
Item(ts, tz) == [t |-> "object", timestamp |-> ts, timezoneOffset |-> tz]

\* taken at the cutoff, 2020-01-01T00:00:00.000Z, one hour west of UTC
ItemAtCutoff == Item(startMs, JNumber(-3600000))
\* taken one millisecond before the cutoff, one hour east of UTC
ItemBeforeCutoff == Item(TimePlus(startMs, -1), JNumber(3600000))
\* taken on 2020-02-29T23:30:00.000Z, one hour east of UTC
ItemLeapDay == Item(EpochMs(DaysFromCivil(2020, 2, 29), 84600000), JNumber(3600000))
\* taken at the same time, the offset not reported as a number
ItemNoOffset == Item(EpochMs(DaysFromCivil(2020, 2, 29), 84600000), JString(S_bad))

ItemLists ==
    {<<>>, <<ItemAtCutoff, ItemBeforeCutoff, ItemLeapDay>>,
     <<ItemLeapDay, JNull, ItemNoOffset, ItemLeapDay>>}

\* next cursors: two tokens, null, the empty string, absent
CursorA == JString(<<"a">>)
CursorB == JString(<<"b">>)
Cursors == {CursorA, CursorB, JNull, JString(<<>>), JUndefined}

\* hints: absent, one millisecond below the cutoff, the cutoff itself
Hints == {JUndefined, TimePlus(startMs, -1), startMs}

Pages == {Page(i, c, h) : i \in ItemLists, c \in Cursors, h \in Hints} \cup {NullPage}

\* the script is pasted into the console
InitAcq ==
    /\ source = "none"
    /\ response = NoResponse
    /\ promise = "idle"
    /\ entries = <<>>
    /\ error = NoError
    /\ years = <<>>
    /\ limitArg = DefaultLimit
    /\ monthly = <<>>
    /\ feed = <<>>
    /\ pc = "start"
    /\ requests = <<>>
    /\ inFlight = 0
    /\ nextPageId = JNull
    /\ counts = <<>>
    /\ published = Unset
    /\ HomeIdle

\* RequestPage sending every request without a cursor
RequestPage_NullCursor ==
    /\ pc = "start" \/ (pc = "paused" /\ Truthy(nextPageId))
    /\ Len(requests) < MaxPages
    /\ requests' = Append(requests, JNull)
    /\ inFlight' = inFlight + 1
    /\ pc' = "fetching"
    /\ UNCHANGED <<feed, nextPageId, counts, published>>
    /\ UNCHANGED <<source, response, promise, entries, error, years, limitArg, monthly, homeVars>>

\* gptkApi.getItemsByTakenDate(null, null, nextPageId): the first turn of the
\* do-while, or a later one once the pause is over and while (nextPageId) holds
RequestPage ==
    /\ pc = "start" \/ (pc = "paused" /\ Truthy(nextPageId))
    /\ Len(requests) < MaxPages
    /\ requests' = Append(requests, nextPageId)
    /\ inFlight' = inFlight + 1
    /\ pc' = "fetching"
    /\ UNCHANGED <<feed, nextPageId, counts, published>>
    /\ UNCHANGED <<source, response, promise, entries, error, years, limitArg, monthly, homeVars>>

\* ReceivePage ending the loop also on a page of which nothing was kept
ReceivePage_CountBased ==
    /\ pc = "fetching"
    /\ \E page \in Pages :
        /\ feed' = Append(feed, page)
        /\ counts' = CountItems(counts, page.items)
        /\ nextPageId' = Coalesce(page.nextPageId, JNull)
        /\ IF shouldStop(page) \/ CountItems(counts, page.items) = counts
           THEN pc' = "done" /\ published' = SortCounts(CountItems(counts, page.items))
           ELSE pc' = "paused" /\ published' = published
    /\ inFlight' = inFlight - 1
    /\ UNCHANGED requests
    /\ UNCHANGED <<source, response, promise, entries, error, years, limitArg, monthly, homeVars>>

\* the request resolves: the items are counted, the cursor is taken over and
\* the hint is tested; on shouldStop the loop breaks and the sorted counts
\* are published, else the loop pauses
ReceivePage ==
    /\ pc = "fetching"
    /\ \E page \in Pages :
        /\ feed' = Append(feed, page)
        /\ counts' = CountItems(counts, page.items)
        /\ nextPageId' = Coalesce(page.nextPageId, JNull)
        /\ IF shouldStop(page)
           THEN pc' = "done" /\ published' = SortCounts(CountItems(counts, page.items))
           ELSE pc' = "paused" /\ published' = published
    /\ inFlight' = inFlight - 1
    /\ UNCHANGED requests
    /\ UNCHANGED <<source, response, promise, entries, error, years, limitArg, monthly, homeVars>>

\* the request rejects: the await throws out of the loop and of the async
\* function, whose locals (counts) nothing else refers to
FetchFails ==
    /\ pc = "fetching"
    /\ feed' = Append(feed, FetchError)
    /\ inFlight' = inFlight - 1
    /\ pc' = "failed"
    /\ UNCHANGED <<requests, nextPageId, counts, published>>
    /\ UNCHANGED <<source, response, promise, entries, error, years, limitArg, monthly, homeVars>>

\* the pause is over and while (nextPageId) fails: the sorted counts are
\* published
LoopEnds ==
    /\ pc = "paused"
    /\ ~Truthy(nextPageId)
    /\ pc' = "done"
    /\ published' = SortCounts(counts)
    /\ UNCHANGED <<feed, requests, inFlight, nextPageId, counts>>
    /\ UNCHANGED <<source, response, promise, entries, error, years, limitArg, monthly, homeVars>>

NextAcq == RequestPage \/ ReceivePage \/ FetchFails \/ LoopEnds

SpecAcq == InitAcq /\ [][NextAcq]_vars

\* the script runs on: its pause ends, with the next request or with the
\* publication; nothing is assumed of the feed answering
SpecAcqFair == SpecAcq /\ WF_vars(RequestPage) /\ WF_vars(LoopEnds)

----------------------------------------------------------------------------
(* The Home page: loadSelected, onMounted and the watcher of selectedId *)

\* calls of loadSelected in one run of the model: the mount and the selections
MaxLoads == 3

\* the ids of the sources the model selects among; the four YouTube sources
\* share one loader and are left out
SourceIds == {"trakt", "photos", "whatsapp", "calls"}

\* what the server answers for the file of a source: trakt, photos and calls
\* have a summary, the WhatsApp summary is missing
ServedFile(id) ==
    IF id = "trakt" THEN
        OkResponse(JArray(<<JObject(<<Prop(K_date, JString(DayKey(2021, 6, 1))),
                                      Prop(K_total_runtime, JNumber(30))>>)>>))
    ELSE IF id = "photos" THEN
        OkResponse(JObject(<<Prop(DayKey(2018, 3, 4), JNumber(5)),
                             Prop(DayKey(2020, 2, 29), JNumber(7))>>))
    ELSE IF id = "calls" THEN
        OkResponse(JArray(<<JObject(<<Prop(K_date, JString(DayKey(2019, 12, 31))),
                                      Prop(K_incoming_count, JNumber(1)),
                                      Prop(K_incoming_seconds, JNumber(40))>>)>>))
    ELSE [ok |-> FALSE, status |-> 404, json |-> JNull]

\* cfg.load() of the source with this id
CfgLoad(id) ==
    IF id = "trakt" THEN loadRuntimeSummary(ServedFile(id))
    ELSE IF id = "photos" THEN loadPhotosSummary(ServedFile(id))
    ELSE IF id = "whatsapp" THEN loadWhatsAppSummary(ServedFile(id))
    ELSE loadCallsSummary(ServedFile(id))

\* cfg.groupYears(data).filter((y) => y >= 2019)
HomeYears(data) == SelectSeq(groupYears(data), AtLeast2019)

\* e?.message ?? String(e) of the Error a loader throws
ShownMessage(p) == [t |-> "message", text |-> p.message]

\* a call of loadSelected up to its await: cfg is found by the selectedId of
\* that moment
LoadCall(id) == [cfg |-> id, settled |-> FALSE]

InitHome ==
    /\ source = "none"
    /\ response = NoResponse
    /\ promise = "idle"
    /\ entries = <<>>
    /\ error = NoError
    /\ years = <<>>
    /\ limitArg = DefaultLimit
    /\ monthly = <<>>
    /\ AcqIdle
    /\ HomeIdle

\* onMounted: loadSelected() runs up to its await
Mount ==
    /\ loads = <<>>
    /\ isLoading' = TRUE
    /\ shownError' = JNull
    /\ loads' = Append(loads, LoadCall(selectedId))
    /\ UNCHANGED selectedId
    /\ UNCHANGED <<source, response, promise, entries, error, years, limitArg, monthly, acqVars>>

\* the user selects another source; the watcher calls loadSelected(), which
\* runs up to its await
Select ==
    /\ loads # <<>>
    /\ Len(loads) < MaxLoads
    /\ \E id \in SourceIds \ {selectedId} :
        /\ selectedId' = id
        /\ loads' = Append(loads, LoadCall(id))
    /\ isLoading' = TRUE
    /\ shownError' = JNull
    /\ UNCHANGED <<source, response, promise, entries, error, years, limitArg, monthly, acqVars>>

\* the await of some call of loadSelected resumes with the data: the try
\* block's two assignments, then the finally block
LoadResolves ==
    /\ \E i \in 1..Len(loads) :
        /\ ~loads[i].settled
        /\ CfgLoad(loads[i].cfg).state = "fulfilled"
        /\ loads' = [loads EXCEPT ![i].settled = TRUE]
        /\ entries' = CfgLoad(loads[i].cfg).value
        /\ years' = HomeYears(CfgLoad(loads[i].cfg).value)
    /\ isLoading' = FALSE
    /\ UNCHANGED <<selectedId, shownError>>
    /\ UNCHANGED <<source, response, promise, error, limitArg, monthly, acqVars>>

\* the await of some call of loadSelected throws: the catch block, then the
\* finally block
LoadRejects ==
    /\ \E i \in 1..Len(loads) :
        /\ ~loads[i].settled
        /\ CfgLoad(loads[i].cfg).state = "rejected"
        /\ loads' = [loads EXCEPT ![i].settled = TRUE]
        /\ shownError' = ShownMessage(CfgLoad(loads[i].cfg))
    /\ isLoading' = FALSE
    /\ UNCHANGED <<selectedId, entries, years>>
    /\ UNCHANGED <<source, response, promise, error, limitArg, monthly, acqVars>>

NextHome == Mount \/ Select \/ LoadResolves \/ LoadRejects

SpecHome == InitHome /\ [][NextHome]_vars

----------------------------------------------------------------------------
(* Properties of the loaders (checked under Spec) *)

\* a loader was given a successful response holding an array
AcceptedArray == promise # "idle" /\ response.ok /\ ArrayIsArray(response.json)

\* String(record.date) matches the strict day pattern; null has no date
DateMatches(d) == ~IsNullish(d) /\ TestDayPattern(String(Get(d, K_date)))

\* the field coerces to a finite number
CoercesFinite(d, key) == NumberIsFinite(Number(Get(d, key)))
\* the same for a field that defaults to 0 when missing
CoercesFiniteOrDefault(d, key) ==
    NumberIsFinite(Number(Coalesce(Get(d, key), JNumber(0))))

\* every required numeric field of the source coerces to a finite number
RequiredFinite(src, d) ==
    CASE src \in {"loadPhotosSummary", "loadSearchSummary"} -> CoercesFinite(d, K_count)
      [] src = "loadWhatsAppSummary" -> CoercesFiniteOrDefault(d, K_msgs_sent)
      [] src = "loadHealthSummary" ->
            /\ CoercesFinite(d, K_energy_burned_kcal)
            /\ CoercesFinite(d, K_steps)
            /\ CoercesFinite(d, K_walk_distance_meters)
      [] src = "loadRuntimeSummary" -> CoercesFinite(d, K_total_runtime)
      [] src = "loadCallsSummary" ->
            /\ CoercesFiniteOrDefault(d, K_incoming_count)
            /\ CoercesFiniteOrDefault(d, K_outgoing_count)
            /\ CoercesFiniteOrDefault(d, K_incoming_seconds)
            /\ CoercesFiniteOrDefault(d, K_outgoing_seconds)

WellFormed(src, d) == DateMatches(d) /\ RequiredFinite(src, d)

\* the well-formed records of the loaded array, in input order
WellFormedRecords ==
    LET Good(d) == WellFormed(source, d)
    IN  SelectSeq(response.json.a, Good)

\* the entries are those of the well-formed records, one each, in input order
KeepsExactlyWellFormed ==
    /\ Len(entries) = Len(WellFormedRecords)
    /\ \A k \in 1..Len(entries) :
            entries[k].date = String(Get(WellFormedRecords[k], K_date))

\* C1: for every loader and every record of an accepted array, the record
\* yields an Entry iff String(record.date) matches the day pattern and every
\* required numeric field coerces to a finite number; the entries keep the
\* order of the records.  (Fails: loadCallsSummary keeps a record whose
\* incoming_count is not a number.)
C1_FilteringSoundness ==
    (AcceptedArray /\ promise = "fulfilled") => KeepsExactlyWellFormed

\* the metric fields declared by CallSummaryEntry
CallMetricFields(e) ==
    <<e.incoming_count, e.outgoing_count, e.incoming_seconds, e.outgoing_seconds,
      e.total_count, e.total_seconds, e.total_minutes>>

\* C2: every Entry returned by loadCallsSummary has all seven metric fields
\* finite, a record with a non-finite raw field being dropped.  (Fails: the
\* filter tests only the totals, which are finite by construction.)
C2_CallsEntriesFinite ==
    (source = "loadCallsSummary" /\ promise = "fulfilled") =>
        \A k \in 1..Len(entries) : \A i \in 1..7 :
            NumberIsFinite(CallMetricFields(entries[k])[i])

\* C3: in every Entry returned by loadCallsSummary the totals are the sums of
\* the entry's own emitted fields and total_minutes is round(total_seconds / 60).
\* (Fails on an entry emitted with a NaN field: the total counts it as 0.)
C3_CallsDerivedTotals ==
    (source = "loadCallsSummary" /\ promise = "fulfilled") =>
        \A k \in 1..Len(entries) :
            LET e == entries[k]
            IN  /\ e.total_count = JsAdd(e.incoming_count, e.outgoing_count)
                /\ e.total_seconds = JsAdd(e.incoming_seconds, e.outgoing_seconds)
                /\ e.total_minutes = RoundDiv60(e.total_seconds)

\* C4: a malformed element of an array document never makes the load fail:
\* the promise is fulfilled and no well-formed record is lost.  (Fails: a null
\* element makes every loader but loadCallsSummary throw a TypeError.)
C4_MalformedNeverFails ==
    AcceptedArray =>
        /\ promise = "fulfilled"
        /\ Len(entries) >= Len(WellFormedRecords)

\* the array [{date: d1, count: c1}, ...] written from a date-keyed mapping,
\* in the order of its keys
ArrayOfMapping(o) ==
    JArray([i \in 1..Len(o.props) |->
                JObject(<<Prop(K_date, JString(o.props[i].key)),
                          Prop(K_count, o.props[i].value)>>)])

\* the photo loader was given a date-keyed mapping
LoadedMapping ==
    source = "loadPhotosSummary" /\ response.ok /\ response.json.t = "object"

\* the mapping {"2021-06-01": 5, "2021-06-02": "bad"}
ScenarioMapping ==
    JObject(<<Prop(DayKey(2021, 6, 1), JNumber(5)), Prop(DayKey(2021, 6, 2), JString(S_bad))>>)

\* C5: the photo loader returns for a date-keyed mapping the Entry sequence it
\* returns for the array of the same dates and counts in the same order; the
\* mapping {"2021-06-01": 5, "2021-06-02": "bad"} gives the one Entry
\* (2021-06-01, 5).
C5_MappingEqualsArray ==
    LoadedMapping =>
        /\ promise = "fulfilled"
        /\ loadPhotosSummary(OkResponse(ArrayOfMapping(response.json))).state = "fulfilled"
        /\ entries = loadPhotosSummary(OkResponse(ArrayOfMapping(response.json))).value
        /\ (response.json = ScenarioMapping =>
                entries = <<[date |-> DayKey(2021, 6, 1), count |-> Fin(5)]>>)

\* a mapping of two keys was loaded, one kept and one dropped
C5_Witness ==
    /\ LoadedMapping
    /\ response.json = ScenarioMapping
    /\ Len(entries) = 1

----------------------------------------------------------------------------
(* Properties of groupYears and the aggregation (checked under SpecAgg) *)

\* the elements of a sequence
Range(s) == {s[i] : i \in 1..Len(s)}

\* C6: groupYears returns exactly the years of its entries, strictly
\* ascending and without duplicates, whatever the order and repetition of the
\* dates; no entries give no years.
C6_GroupYearsExact ==
    source = "groupYears" =>
        /\ Range(years) = {getYearFromISO(entries[i].date) : i \in 1..Len(entries)}
        /\ \A i, j \in 1..Len(years) :
                i < j => /\ NumberIsFinite(years[i])
                         /\ NumberIsFinite(years[j])
                         /\ years[i].n < years[j].n
        /\ (entries = <<>> => years = <<>>)

\* two entries, the later year first, were grouped into two years
C6_Witness ==
    /\ source = "groupYears"
    /\ Len(entries) = 2
    /\ getYearFromISO(entries[1].date).n > getYearFromISO(entries[2].date).n
    /\ Len(years) = 2

\* an aggregation has returned
Aggregated == source \in {"aggregateGenresByMonth", "aggregateSubgenresByMonth"}

\* the list the aggregation read from every entry
InputLists ==
    IF source = "aggregateGenresByMonth" THEN GenresOf(entries) ELSE SubgenresOf(entries)

\* the category items of the entries dated in month m of year y, in input order
MonthItems(y, m) ==
    LET F[i \in 0..Len(entries)] ==
            IF i = 0 THEN <<>>
            ELSE IF /\ getYearFromISO(entries[i].date) = y
                    /\ getUTCMonthPlus1(entries[i].date) = m
                 THEN F[i - 1] \o InputLists[i]
                 ELSE F[i - 1]
    IN  F[Len(entries)]

ItemName(g) == Get(g, K_name)
ItemCount(g) == Get(g, K_count).v.n

\* the sum of the counts of the items called name
SumOfName(items, name) ==
    LET F[i \in 0..Len(items)] ==
            IF i = 0 THEN 0
            ELSE F[i - 1] + (IF ItemName(items[i]) = name THEN ItemCount(items[i]) ELSE 0)
    IN  F[Len(items)]

\* the sum of the counts of all items
SumOfItems(items) ==
    LET F[i \in 0..Len(items)] ==
            IF i = 0 THEN 0 ELSE F[i - 1] + ItemCount(items[i])
    IN  F[Len(items)]

\* the sum of the counters of a bucket
BucketTotal(b) ==
    LET F[i \in 0..Len(b.genres)] ==
            IF i = 0 THEN 0 ELSE F[i - 1] + b.genres[i].count.n
    IN  F[Len(b.genres)]

\* the bucket holds all its counters: the genre aggregation, or a limit that
\* cuts nothing
Uncapped(b) ==
    \/ source = "aggregateGenresByMonth"
    \/ limitArg >= Cardinality({ItemName(g) : g \in Range(MonthItems(b.year, b.month))})

\* C7: in every uncapped bucket each category name of the month has one
\* counter, whose count is the sum of the counts of the month's items of that
\* name; the bucket's total is the total of the month's item counts.
C7_AggregationConservation ==
    Aggregated =>
        \A x \in 1..Len(monthly) :
            LET b == monthly[x]
                items == MonthItems(b.year, b.month)
            IN  Uncapped(b) =>
                    /\ \A g \in Range(items) :
                            Cardinality({k \in 1..Len(b.genres) :
                                            b.genres[k].name = ItemName(g)}) = 1
                    /\ \A k \in 1..Len(b.genres) :
                            /\ \E g \in Range(items) : ItemName(g) = b.genres[k].name
                            /\ b.genres[k].count = Fin(SumOfName(items, b.genres[k].name))
                    /\ BucketTotal(b) = SumOfItems(items)

\* an uncapped subgenre bucket holds a counter summed from three items of two
\* entries
C7_Witness ==
    /\ source = "aggregateSubgenresByMonth"
    /\ limitArg = DefaultLimit
    /\ Len(entries) = 2
    /\ Len(monthly) = 1
    /\ \E k \in 1..Len(monthly[1].genres) :
            /\ monthly[1].genres[k].name = JString(S_Noir)
            /\ monthly[1].genres[k].count = Fin(3)

\* C8: in every bucket of either aggregation, a category placed before
\* another has a count at least as large.
C8_DescendingCounts ==
    Aggregated =>
        \A x \in 1..Len(monthly) :
            \A i, j \in 1..Len(monthly[x].genres) :
                i < j => /\ NumberIsFinite(monthly[x].genres[i].count)
                         /\ NumberIsFinite(monthly[x].genres[j].count)
                         /\ monthly[x].genres[i].count.n >= monthly[x].genres[j].count.n

\* an entry listing Drama 1 before Comedy 2 gave a bucket with Comedy first
C8_Witness ==
    /\ source = "aggregateGenresByMonth"
    /\ Len(entries) = 1
    /\ entries[1].genres = <<GenreCount(S_Drama, 1), GenreCount(S_Comedy, 2)>>
    /\ Len(monthly) = 1
    /\ monthly[1].genres = <<[name |-> JString(S_Comedy), count |-> Fin(2)],
                             [name |-> JString(S_Drama), count |-> Fin(1)]>>

\* the place of the first item called name
FirstSeen(items, name) ==
    CHOOSE i \in 1..Len(items) :
        ItemName(items[i]) = name /\ \A j \in 1..(i - 1) : ItemName(items[j]) # name

\* the January 2020 bucket with Drama before Comedy, 3 each
ScenarioBucket ==
    [year |-> Fin(2020), month |-> Fin(1),
     genres |-> <<[name |-> JString(S_Drama), count |-> Fin(3)],
                  [name |-> JString(S_Comedy), count |-> Fin(3)]>>]

\* C9: categories of a bucket with equal counts stand in the order in which
\* their names were first met while the entries were folded in input order;
\* the two January 2020 entries (Drama 2; Drama 1, Comedy 3) give the one
\* bucket [Drama 3, Comedy 3].
C9_TiesFirstSeen ==
    Aggregated =>
        /\ \A x \in 1..Len(monthly) :
                LET b == monthly[x]
                    items == MonthItems(b.year, b.month)
                IN  \A i, j \in 1..Len(b.genres) :
                        (i < j /\ b.genres[i].count = b.genres[j].count) =>
                            FirstSeen(items, b.genres[i].name) < FirstSeen(items, b.genres[j].name)
        /\ (source = "aggregateGenresByMonth" /\ entries = ScenarioEntries) =>
                monthly = <<ScenarioBucket>>

\* the scenario was aggregated: a tie of two categories
C9_Witness ==
    /\ source = "aggregateGenresByMonth"
    /\ entries = ScenarioEntries
    /\ Len(monthly) = 1
    /\ Len(monthly[1].genres) = 2
    /\ monthly[1].genres[1].count = monthly[1].genres[2].count

\* C10: the buckets are strictly ordered by year, then by month: no two share
\* a (year, month).
C10_BucketsOrdered ==
    Aggregated =>
        \A i, j \in 1..Len(monthly) :
            i < j =>
                /\ NumberIsFinite(monthly[i].year) /\ NumberIsFinite(monthly[j].year)
                /\ NumberIsFinite(monthly[i].month) /\ NumberIsFinite(monthly[j].month)
                /\ \/ monthly[i].year.n < monthly[j].year.n
                   \/ /\ monthly[i].year.n = monthly[j].year.n
                      /\ monthly[i].month.n < monthly[j].month.n

\* entries of November then February 2020 gave the February bucket first
C10_Witness ==
    /\ Aggregated
    /\ Len(entries) = 2
    /\ entries[1].date = DayKey(2020, 11, 2)
    /\ entries[2].date = DayKey(2020, 2, 15)
    /\ Len(monthly) = 2
    /\ monthly[1].month = Fin(2)

\* the buckets of the subgenre aggregation before the limit is applied
FullSubgenreBuckets ==
    LET map == FoldEntries(entries, SubgenresOf(entries))
    IN  SortMonthly([i \in 1..Len(map) |->
            MonthBucket(map[i].key, SortGenres(map[i].genreMap))])

\* C11: for a limit K >= 0 every bucket of aggregateSubgenresByMonth(entries, K)
\* holds exactly the first min(K, n) of the bucket's n counters sorted by
\* descending count; K = 0 gives an empty list in every bucket, and the
\* buckets emitted are the same for every K.
C11_TopK ==
    (source = "aggregateSubgenresByMonth" /\ limitArg >= 0) =>
        LET full == FullSubgenreBuckets
        IN  /\ Len(monthly) = Len(full)
            /\ \A x \in 1..Len(monthly) :
                    LET n == Len(full[x].genres)
                    IN  /\ monthly[x].year = full[x].year
                        /\ monthly[x].month = full[x].month
                        /\ monthly[x].genres =
                                SubSeq(full[x].genres, 1, IF limitArg < n THEN limitArg ELSE n)
                        /\ (limitArg = 0 => monthly[x].genres = <<>>)

\* a bucket of two counters was cut to its first by the limit 1
C11_Witness ==
    /\ source = "aggregateSubgenresByMonth"
    /\ limitArg = 1
    /\ Len(monthly) = 1
    /\ Len(FullSubgenreBuckets[1].genres) = 2
    /\ Len(monthly[1].genres) = 1

\* the months that have an entry, counted from year 0
EntryMonths ==
    {12 * getYearFromISO(entries[i].date).n + getUTCMonthPlus1(entries[i].date).n - 1 :
        i \in 1..Len(entries)}

\* C12: every calendar month between the earliest and the latest month with
\* an entry has a bucket among those rendered from aggregateGenresByMonth, a
\* month without entries an empty one.  (Fails: the aggregation emits buckets
\* only for months with entries, and the page fills the months 1..12 only of
\* the years that have a bucket.)
C12_ContiguousMonths ==
    (source = "aggregateGenresByMonth" /\ entries # <<>>) =>
        LET lo == CHOOSE k \in EntryMonths : \A j \in EntryMonths : k <= j
            hi == CHOOSE k \in EntryMonths : \A j \in EntryMonths : j <= k
        IN  \A k \in lo..hi :
                \E b \in Range(RenderedMonths(monthly)) :
                    /\ 12 * b.year.n + b.month.n - 1 = k
                    /\ (k \notin EntryMonths => b.genres = <<>>)

----------------------------------------------------------------------------
(* Failures of a load (checked under Spec) *)

Loaders ==
    {"loadPhotosSummary", "loadSearchSummary", "loadWhatsAppSummary",
     "loadHealthSummary", "loadRuntimeSummary", "loadCallsSummary"}

\* the message of a loader's transport failure, before the status it carries
TransportMessage(src) ==
    CASE src = "loadPhotosSummary" -> "Failed to load Google Photos summary"
      [] src = "loadSearchSummary" -> "Failed to load YTMusic summary"
      [] src = "loadWhatsAppSummary" -> "Failed to load WhatsApp summary"
      [] src = "loadHealthSummary" -> "Failed to load Health summary"
      [] src = "loadRuntimeSummary" -> "Failed to load summary data"
      [] src = "loadCallsSummary" -> "Failed to load Calls summary"

\* the message of a loader's shape failure
ShapeMessage(src) ==
    CASE src = "loadPhotosSummary" ->
            "Invalid Google Photos summary shape: expected array or date-keyed object"
      [] src = "loadSearchSummary" -> "Invalid YTMusic summary shape: expected an array"
      [] src = "loadWhatsAppSummary" -> "Invalid WhatsApp summary shape: expected an array"
      [] src = "loadHealthSummary" -> "Invalid Health summary shape: expected an array"
      [] src = "loadRuntimeSummary" -> "Invalid summary data shape: expected an array"
      [] src = "loadCallsSummary" -> "Invalid Calls summary shape: expected an array"

\* the top-level JSON is a shape the loader accepts
AcceptedShape ==
    \/ ArrayIsArray(response.json)
    \/ (source = "loadPhotosSummary" /\ response.json.t = "object")

\* C16: a load of a non-success response is rejected with the loader's
\* 'Failed to load' error carrying the response status, whatever the body; a
\* load of a successful response whose JSON is no accepted shape is rejected
\* with the loader's 'Invalid ... shape' error; the two messages differ and
\* neither load returns entries.
C16_FailuresDistinguished ==
    source \in Loaders =>
        /\ ~response.ok =>
                /\ promise = "rejected"
                /\ error = [name |-> "Error", message |-> TransportMessage(source),
                            status |-> response.status]
                /\ entries = <<>>
        /\ (response.ok /\ ~AcceptedShape) =>
                /\ promise = "rejected"
                /\ error = [name |-> "Error", message |-> ShapeMessage(source), status |-> 0]
                /\ entries = <<>>
        /\ TransportMessage(source) # ShapeMessage(source)

\* the photo loader rejected a successful response holding null
C16_Witness ==
    /\ source = "loadPhotosSummary"
    /\ response = OkResponse(JNull)
    /\ promise = "rejected"
    /\ error.message = ShapeMessage("loadPhotosSummary")

----------------------------------------------------------------------------
(* Properties of the acquisition loop (checked under SpecAcq) *)

\* the page's hint is a number strictly below the cutoff 2020-01-01T00:00Z,
\* the day 18262 of the epoch
HintBelowCutoff(page) ==
    page.lastItemTimestamp.t = "number" /\ page.lastItemTimestamp.d < 18262

\* the page's next cursor is null, empty or absent
CursorEmpty(page) == page.nextPageId \in {JNull, JString(<<>>), JUndefined}

\* the page ends the acquisition
EndsFeed(page) == HintBelowCutoff(page) \/ CursorEmpty(page)

\* C13: no request follows a page whose hint is a number below the cutoff or
\* whose next cursor is null, empty or absent; when the loop is done the
\* requests issued number the index of the first such page.
C13_StopsAtFirstEndingPage ==
    /\ \A n \in 1..Len(feed) :
            (feed[n].kind # "error" /\ EndsFeed(feed[n])) => Len(requests) <= n
    /\ pc = "done" =>
            /\ Len(requests) = Len(feed)
            /\ EndsFeed(feed[Len(feed)])
            /\ \A n \in 1..(Len(feed) - 1) : ~EndsFeed(feed[n])

\* the second page carried a cursor and a hint below the cutoff: the loop is
\* done after two requests
C13_Witness ==
    /\ pc = "done"
    /\ Len(requests) = 2
    /\ HintBelowCutoff(feed[2])
    /\ feed[2].nextPageId = CursorB

\* the local calendar day of the feed's items
ExpectedDay(item) ==
    CASE item = ItemAtCutoff -> DayKey(2019, 12, 31)
      [] item = ItemBeforeCutoff -> DayKey(2020, 1, 1)
      [] item = ItemLeapDay -> DayKey(2020, 3, 1)
      [] item = ItemNoOffset -> DayKey(2020, 2, 29)

\* the item was taken at or after the cutoff
AtOrAfterCutoff(item) == item # JNull /\ item.timestamp.d >= 18262

\* the places <<page, index>> of the fetched items at or after the cutoff
QualifyingPlaces ==
    {q \in {<<n, i>> : n \in 1..Len(feed), i \in 1..4} :
        /\ q[2] <= Len(feed[q[1]].items)
        /\ AtOrAfterCutoff(feed[q[1]].items[q[2]])}

PlaceDay(q) == ExpectedDay(feed[q[1]].items[q[2]])

\* the count of every day with a qualifying item, as a set of pairs
ExpectedCounts ==
    {[key |-> PlaceDay(q), count |-> Cardinality({r \in QualifyingPlaces : PlaceDay(r) = PlaceDay(q)})] :
        q \in QualifyingPlaces}

\* C14: when the loop is done, the count of every local-day key is the number
\* of items of all fetched pages, the page the loop stopped on included, that
\* were taken at or after the cutoff on that local day; nothing else is
\* counted and the published counts are these.
C14_CountsExact ==
    pc = "done" =>
        /\ Range(counts) = ExpectedCounts
        /\ Len(counts) = Cardinality(ExpectedCounts)
        /\ Range(published) = ExpectedCounts
        /\ Len(published) = Cardinality(ExpectedCounts)

\* the loop stopped on the hint of a second page whose items were still counted
C14_Witness ==
    /\ pc = "done"
    /\ Len(feed) = 2
    /\ feed[1].items = <<ItemAtCutoff, ItemBeforeCutoff, ItemLeapDay>>
    /\ feed[2].items = <<ItemLeapDay, JNull, ItemNoOffset, ItemLeapDay>>
    /\ HintBelowCutoff(feed[2])
    /\ [key |-> DayKey(2020, 3, 1), count |-> 3] \in Range(published)

\* C15: after a failed page fetch no request is in flight or issued again and
\* the partial counts of the pages fetched before are handed to the caller.
\* (Fails: the rejection leaves the async function before anything is
\* published; counts is a local of that function.)
C15_PartialCountsSurfaced ==
    pc = "failed" =>
        /\ inFlight = 0
        /\ Len(requests) = Len(feed)
        /\ published # Unset
        /\ published = SortCounts(counts)

\* the last outcome of the feed is a page that ends the acquisition
FeedEnded ==
    /\ feed # <<>>
    /\ feed[Len(feed)].kind # "error"
    /\ EndsFeed(feed[Len(feed)])

\* the done state: the sorted counts are published
DonePublished ==
    /\ pc = "done"
    /\ published = SortCounts(counts)
    /\ \A i, j \in 1..Len(published) :
            i < j => LocaleCompare(published[i].key, published[j].key) < 0

\* C17: the loop goes on after a page iff the page's cursor is non-empty and
\* its hint is absent or not below the cutoff, whatever the page's items;
\* once the feed has returned an empty cursor or a hint below the cutoff the
\* loop reaches its done state with the sorted counts published.
C17_ContentBasedTermination ==
    /\ [][(pc = "paused" /\ pc' = "fetching") => ~EndsFeed(feed[Len(feed)])]_vars
    /\ [][pc' = "done" => EndsFeed(feed'[Len(feed')])]_vars
    /\ [](pc = "paused" /\ ~EndsFeed(feed[Len(feed)]) /\ Len(requests) < MaxPages
            => ENABLED RequestPage)
    /\ FeedEnded ~> DonePublished

\* after an empty page with a cursor the loop went on, and ended on a page
\* without a cursor
C17_Witness ==
    /\ pc = "done"
    /\ Len(feed) = 2
    /\ feed[1].items = <<>>
    /\ feed[2].items = <<ItemAtCutoff, ItemBeforeCutoff, ItemLeapDay>>
    /\ feed[2].nextPageId = JString(<<>>)
    /\ ~HintBelowCutoff(feed[2])
    /\ published = <<[key |-> DayKey(2019, 12, 31), count |-> 1],
                     [key |-> DayKey(2020, 3, 1), count |-> 1]>>

\* C18: the keys counted are the local days of the items taken at or after
\* the cutoff: the UTC day of timestamp + timezoneOffset, an offset that is
\* no number taken for 0.  An item taken at the cutoff one hour west of UTC
\* is counted under 2019-12-31; one taken a millisecond before the cutoff one
\* hour east of UTC is not counted under 2020-01-01.
C18_LocalDayKeys ==
    pc \in {"paused", "done", "failed", "fetching"} =>
        /\ {counts[i].key : i \in 1..Len(counts)} = {PlaceDay(q) : q \in QualifyingPlaces}
        /\ \A i \in 1..Len(counts) :
                \E q \in QualifyingPlaces :
                    LET it == feed[q[1]].items[q[2]]
                        tz == IF it.timezoneOffset.t = "number"
                              THEN it.timezoneOffset.v.n ELSE 0
                        key == counts[i].key
                    IN  DaysFromCivil(CharsToNat(SubSeq(key, 1, 4)),
                                      CharsToNat(SubSeq(key, 6, 7)),
                                      CharsToNat(SubSeq(key, 9, 10)))
                            = it.timestamp.d + ((it.timestamp.ms + tz) \div 86400000)
        /\ \A i \in 1..Len(counts) : counts[i].key # DayKey(2020, 1, 1)

\* items at the cutoff, on the leap day with and without an offset were
\* counted under three keys
C18_Witness ==
    /\ Len(feed) = 2
    /\ {counts[i].key : i \in 1..Len(counts)} =
            {DayKey(2019, 12, 31), DayKey(2020, 2, 29), DayKey(2020, 3, 1)}

\* C19: the first request carries a null cursor, every later one the cursor
\* the page before it returned; at most one request is in flight, and a
\* request is issued only when every earlier one was answered.
C19_SequentialRequests ==
    /\ inFlight \in {0, 1}
    /\ Len(requests) = Len(feed) + inFlight
    /\ requests # <<>> => requests[1] = JNull
    /\ \A n \in 1..(Len(requests) - 1) : requests[n + 1] = feed[n].nextPageId

\* the second request is in flight with the cursor of the first page
C19_Witness ==
    /\ pc = "fetching"
    /\ Len(requests) = 2
    /\ requests[2] = CursorB
    /\ feed[1].nextPageId = CursorB

----------------------------------------------------------------------------
(* Properties of the Home page (checked under SpecHome) *)

\* every call of loadSelected has settled, the mount's included
AllLoadsSettled == loads # <<>> /\ \A i \in 1..Len(loads) : loads[i].settled

\* C20: on the Home page, whatever sources were selected while earlier loads
\* were in flight and in whatever order the loads completed, once every load
\* has settled the entries and the years shown are those of the selected
\* source: the result of an earlier-started load never replaces the result of
\* a later-started one.
C20_LatestSelectionShown ==
    (AllLoadsSettled /\ CfgLoad(selectedId).state = "fulfilled") =>
        /\ entries = CfgLoad(selectedId).value
        /\ years = HomeYears(CfgLoad(selectedId).value)

----------------------------------------------------------------------------
(* Properties of adapter output (checked under SpecPipeline) *)

\* the number is an integer
IsInteger(x) == x.k = "fin"

\* the number is an integer of 1..12
IsMonthNumber(x) == x.k = "fin" /\ x.n \in 1..12

\* C21: every Entry an adapter's date filter accepted has an integer year and
\* a UTC month in 1..12; so groupYears of adapter output holds integers only,
\* and every bucket aggregated from adapter output has an integer year and a
\* month in 1..12.  (Fails: the filter tests the pattern dddd-dd-dd only, and
\* a date such as 2020-13-01 makes an invalid Date whose year and month are
\* NaN.)
C21_AcceptedDatesAreDays ==
    /\ (promise = "fulfilled" /\ source \in {"loadRuntimeSummary", "loadPhotosSummary"}) =>
            \A i \in 1..Len(entries) :
                /\ IsInteger(getYearFromISO(entries[i].date))
                /\ IsMonthNumber(getUTCMonthPlus1(entries[i].date))
    /\ source = "groupYears" => \A i \in 1..Len(years) : IsInteger(years[i])
    /\ source = "aggregateGenresByMonth" =>
            \A i \in 1..Len(monthly) :
                IsInteger(monthly[i].year) /\ IsMonthNumber(monthly[i].month)

====
